---------------------------- MODULE Spec2Model ----------------------------
(***************************************************************************)
(* State-machine model of the MagTag MQTT stopwatch.                       *)
(*                                                                         *)
(* Two variants of the program live in the repository and both are         *)
(* modelled; `variant` selects one for the whole behaviour:                *)
(*   "class"    : src/src/code.py  (MagTagStopwatch class, one topic)      *)
(*   "twotopic" : src/code.py      (main(magtag), topics "past" and "now") *)
(*                                                                         *)
(* Time is counted in ticks, TicksPerSec ticks to the second, so that the  *)
(* truncation int(delta.total_seconds()) is something the model computes.  *)
(* Clock values and timestamps are ticks since local midnight.             *)
(***************************************************************************)
EXTENDS Integers, Sequences, FiniteSets, TLC

(***************************************************************************)
(* Bounds of the model.                                                    *)
(***************************************************************************)
\* Resolution of the clock: ticks per second.
TicksPerSec == 2

\* Most messages one call of mqtt_client.loop() hands to on_message.
MaxMsgsPerLoop == 2

(***************************************************************************)
(* Program constants.                                                      *)
(***************************************************************************)
OFF == 0
ALERT == 1
BACKLIGHT == 2

\* REFRESH_INT_MINS_DEFAULT
refresh_int_mins_val == 1

\* seconds of deep sleep of reset_system() / the outer handler
RESET_SLEEP_SECS == 10

\* neopixel brightness is modelled in tenths: 1.0 is 10
FULL_BRIGHTNESS == 10

Secs(h, m, s) == (h * 60 + m) * 60 + s
Ticks(h, m, s, frac) == Secs(h, m, s) * TicksPerSec + frac

\* The instants the wall clock is sampled at (ticks since midnight).
ClockTimes ==
    { Ticks(12, 28, 41, 0), Ticks(12, 29, 0, 0), Ticks(12, 29, 30, 0),
      Ticks(13, 29, 0, 0) }

MinClock == Ticks(12, 28, 41, 0)
MaxClock == Ticks(13, 29, 0, 0)

\* Payloads of inbound messages: the fields of an ISO-8601 timestamp, or a
\* text that is no timestamp (ok = FALSE).
Payloads ==
    { [ok |-> TRUE,  hh |-> 10, mm |-> 28, ss |-> 42, frac |-> 0],
      [ok |-> TRUE,  hh |-> 10, mm |-> 28, ss |-> 42, frac |-> 1],
      [ok |-> TRUE,  hh |-> 12, mm |-> 29, ss |-> 0,  frac |-> 0],
      [ok |-> TRUE,  hh |-> 12, mm |-> 29, ss |-> 0,  frac |-> 1],
      [ok |-> TRUE,  hh |-> 12, mm |-> 34, ss |-> 0,  frac |-> 0],
      [ok |-> TRUE,  hh |-> 13, mm |-> 29, ss |-> 0,  frac |-> 0],
      [ok |-> FALSE, hh |-> 0,  mm |-> 0,  ss |-> 0,  frac |-> 0] }

MQTT_TOPIC_OUT == "topic_past"
MQTT_TOPIC_NOW == "topic_now"
Topics == { MQTT_TOPIC_OUT, MQTT_TOPIC_NOW, "other" }

\* Values of the optional configuration keys leds_on_mins_threshold,
\* sleep_daily_before_hour and backlight_brightness (in tenths): the defaults
\* of the source, the values of default_configs.py, and three more.
Configs ==
    { <<-1, 24, 0>>, <<150, 8, 1>>, <<120, 13, 0>>, <<-1, 8, 1>>,
      <<120, 24, 0>> }

(***************************************************************************)
(* Pure functions.                                                         *)
(***************************************************************************)
\* An optional timestamp: None, or Some(t).
None == [some |-> FALSE, v |-> 0]
Some(t) == [some |-> TRUE, v |-> t]

\* A parser that takes every text for a timestamp.
FromIsoFormatRaisesMutNever(p) == FALSE

\* datetime.fromisoformat raises ValueError on a text that is no timestamp
fromisoformat_raises(p) == ~p.ok

\* datetime.fromisoformat on a well-formed payload
FromIsoFormat(p) == Ticks(p.hh, p.mm, p.ss, p.frac)

\* datetime.hour of a clock value
HourOf(t) == (t \div (3600 * TicksPerSec)) % 24

\* int(delta.total_seconds()): truncation toward zero
TotalSeconds(delta) ==
    IF delta >= 0 THEN delta \div TicksPerSec ELSE -((-delta) \div TicksPerSec)

\* A decomposition that rounds to the nearest minute instead of truncating.
HoursMinutesMutRounded(total_seconds) ==
    LET minutes_all == (total_seconds + 30) \div 60
    IN  <<minutes_all \div 60, minutes_all % 60>>

\* A decomposition that shows a reference in the future as no time at all.
HoursMinutesMutClamped(total_seconds) ==
    IF total_seconds < 0 THEN <<0, 0>>
    ELSE <<total_seconds \div 3600, (total_seconds % 3600) \div 60>>

\* timedelta_to_hours_minutes, on the truncated second count; // is floor
\* division, as \div is.
timedelta_to_hours_minutes(total_seconds) ==
    LET hours == total_seconds \div (60 * 60)
        remaining_seconds == total_seconds - (hours * 60 * 60)
        minutes == remaining_seconds \div 60
    IN  <<hours, minutes>>

\* f"{hours}:{minutes:02}"
FormatHM(hm) ==
    ToString(hm[1]) \o ":" \o (IF hm[2] >= 0 /\ hm[2] < 10 THEN "0" ELSE "")
        \o ToString(hm[2])


(***************************************************************************)
(* State.                                                                  *)
(***************************************************************************)
VARIABLES
    variant,                     \* which of the two programs runs
    leds_on_mins_threshold_val,  \* configuration, fixed at startup
    sleep_daily_before_hour_val,
    backlight_brightness_val,    \* in tenths: 0 is 0.0
    pc,                          \* the supervisor's position
    now,                         \* the wall clock, in ticks
    alarm,                       \* wake-up time of a deep sleep, in ticks
    periph,                      \* magtag.peripherals: "none", "ok", "deinit"
    past_time_objs,              \* MagTagStopwatch._past_time_objs
    current_displayed_text,      \* MagTagStopwatch._current_displayed_text
    display,                     \* the text regions of the MagTag
    leds_status,                 \* LEDS.status
    neopixels,                   \* neopixel_disable, brightness, fill
    mqtt,                        \* the client: connected, subscribed topics
    time_outside,                \* main(): closure variable (two-topic)
    time_now,                    \* main(): closure variable (two-topic)
    msgs_in_loop,                \* messages delivered by the running loop()
    last_formatted,              \* the string the previous refresh_display joined
    probe_retries,               \* parity of the count of failed probes in a row
    obs                          \* what the last step called and computed

vars == << variant, leds_on_mins_threshold_val, sleep_daily_before_hour_val,
           backlight_brightness_val, pc, now, alarm, periph, past_time_objs,
           current_displayed_text, display, leds_status, neopixels, mqtt,
           time_outside, time_now, msgs_in_loop, last_formatted, probe_retries,
           obs >>

config == << variant, leds_on_mins_threshold_val, sleep_daily_before_hour_val,
             backlight_brightness_val >>

\* A text region no set_text has written.
NO_TEXT == "(unset)"
\* No string joined yet.
NO_STR == "(none)"

\* The neopixels as the MagTag library leaves them after construction.
NeopixelsDefault == [disable |-> FALSE, brightness |-> 3, fill |-> "black"]

NoMqtt == [connected |-> FALSE, subscribed |-> {}]

\* The record of a step that rendered nothing and checked nothing.
NoObs ==
    [ op |-> "init", outcome |-> "ok", fail_at |-> "none",
      rendered |-> FALSE, formatted |-> NO_STR, prev_text |-> NO_STR,
      prev_formatted |-> NO_STR, set_text |-> 0,
      fmt |-> FALSE, fmt_now |-> 0, fmt_past |-> 0, delta |-> 0, str0 |-> NO_STR,
      checked |-> FALSE, chk_hour |-> 0, chk_num |-> 0, chk_den |-> 1,
      prev_status |-> OFF, applied |-> << >>, hw_writes |-> 0,
      n_checks |-> 0, hm |-> <<0, 0>>, str1 |-> NO_STR, two |-> FALSE,
      prev_region0 |-> NO_TEXT, topic |-> "none", ts |-> None, idx |-> 0,
      resub_topics |-> TRUE ]

(***************************************************************************)
(* LEDS                                                                    *)
(***************************************************************************)
\* total_minutes is the rational mins.num / mins.den: the class variant
\* passes hours * 60 + minutes, the two-topic variant total_seconds / 60.
\* should_leds_alert without the test that the threshold is not negative.
ShouldLedsAlertMutNoSign(time_hour, mins) ==
    /\ mins.num >= leds_on_mins_threshold_val * mins.den
    /\ time_hour >= sleep_daily_before_hour_val

should_leds_alert(time_hour, mins) ==
    /\ mins.num >= leds_on_mins_threshold_val * mins.den
    /\ leds_on_mins_threshold_val >= 0
    /\ time_hour >= sleep_daily_before_hour_val

should_leds_backlight == backlight_brightness_val > 0

\* The decision of check() with the backlight branch ahead of the alert one.
LedsDesiredMutBacklightFirst(time_hour, mins) ==
    IF should_leds_backlight THEN BACKLIGHT
    ELSE IF should_leds_alert(time_hour, mins) THEN ALERT
    ELSE OFF

LedsDesired(time_hour, mins) ==
    IF should_leds_alert(time_hour, mins) THEN ALERT
    ELSE IF should_leds_backlight THEN BACKLIGHT
    ELSE OFF

\* The hardware side effects of a transition into `state`.
LedsApply(np, state) ==
    IF state = ALERT
    THEN [disable |-> FALSE, brightness |-> FULL_BRIGHTNESS, fill |-> "green"]
    ELSE IF state = BACKLIGHT
    THEN [disable |-> FALSE, brightness |-> backlight_brightness_val,
          fill |-> "white"]
    ELSE [np EXCEPT !.disable = TRUE]

LedsWrites(state) == IF state = OFF THEN 1 ELSE 3

\* What a write to the peripherals can do: it works while they are
\* initialised; after peripherals.deinit() it is a use of a released
\* resource, which either raises or is silently lost.
HwOutcomes == IF periph = "ok" THEN {"ok"} ELSE {"raise", "lost"}

\* A check() that applies its decision on every call.
LedsChangedMutAlways(status, desired) == TRUE

\* `if self.status != LEDS.ALERT:` and its two siblings: a transition is due.
LedsChanged(status, desired) == status # desired

\* LEDS.check: the new status and neopixels, the transitions applied to the
\* hardware (none or one), the hardware writes attempted, and whether the
\* first write raised.
LEDS_check(status, np, time_hour, mins, hw) ==
    LET desired == LedsDesired(time_hour, mins)
    IN  IF ~LedsChanged(status, desired)
        THEN [status |-> status, np |-> np, applied |-> << >>,
              hw_writes |-> 0, raised |-> FALSE]
        ELSE [status |-> desired,
              np |-> IF hw = "ok" THEN LedsApply(np, desired) ELSE np,
              applied |-> <<desired>>,
              hw_writes |-> IF hw = "raise" THEN 1 ELSE LedsWrites(desired),
              raised |-> hw = "raise"]

(***************************************************************************)
(* MagTagStopwatch                                                         *)
(***************************************************************************)
\* `seq[i] = v` on a Python list: i in -len .. len-1 is accepted, a negative
\* i counts from the end, any other i raises IndexError.
ListIndexOk(past, time_idx) ==
    time_idx >= -Len(past) /\ time_idx < Len(past)

ListPos(past, time_idx) ==
    (IF time_idx < 0 THEN time_idx + Len(past) ELSE time_idx) + 1

\* A store that keeps the later of the old and the new timestamp.
SetPastTimeMutKeepsLatest(past, past_time, time_idx) ==
    LET i == ListPos(past, time_idx)
    IN  IF past[i].some /\ past[i].v > past_time THEN past
        ELSE [past EXCEPT ![i] = Some(past_time)]

\* A store that puts the timestamp in the other slot.
SetPastTimeMutOtherSlot(past, past_time, time_idx) ==
    [past EXCEPT ![Len(past) + 1 - ListPos(past, time_idx)] = Some(past_time)]

\* set_past_time: `self._past_time_objs[time_idx] = past_time`, for an index
\* the list accepts.
set_past_time(past, past_time, time_idx) ==
    [past EXCEPT ![ListPos(past, time_idx)] = Some(past_time)]

\* An engine that never leaves the single layout.
ShouldShow2TimesMutNever(past) == FALSE

_should_show_2_times(past) == past[2].some

\* The minutes handed to check() without the minutes component.
ElapsedMinutesMutHoursOnly(hm) == hm[1] * 60

\* `hours_1*60 + minutes_1`, the total_minutes argument of check()
ElapsedMinutes(hm) == hm[1] * 60 + hm[2]

\* A refresh_display that writes the display on every call.
ShouldWriteMutAlways(joined, cur_text) == TRUE

\* `if delta_strs_joined != self._current_displayed_text:`
ShouldWrite(joined, cur_text) == joined # cur_text

\* refresh_display at clock value t.  The result holds the new state of the
\* engine and of the LEDs and what the call did.
refresh_display(t, past, cur_text, disp, status, np, hw) ==
    LET delta_1 == t - past[1].v
        hm_1 == timedelta_to_hours_minutes(TotalSeconds(delta_1))
        str_1 == FormatHM(hm_1)
        chk == LEDS_check(status, np, HourOf(t),
                          [num |-> ElapsedMinutes(hm_1), den |-> 1], hw)
        two == _should_show_2_times(past)
        str_2 == IF two
                 THEN FormatHM(timedelta_to_hours_minutes(
                                   TotalSeconds(t - past[2].v)))
                 ELSE NO_STR
        joined == IF two THEN str_1 \o " " \o str_2 ELSE str_1
        write == ShouldWrite(joined, cur_text)
    IN  [ raised |-> chk.raised,
          status |-> chk.status,
          np |-> chk.np,
          text |-> IF ~chk.raised /\ write THEN joined ELSE cur_text,
          disp |-> IF chk.raised \/ ~write THEN disp
                   ELSE IF two THEN <<"", str_1, str_2>>
                   ELSE <<str_1, "", "">>,
          obs |-> [ NoObs EXCEPT
                    !.rendered = ~chk.raised,
                    !.formatted = IF chk.raised THEN NO_STR ELSE joined,
                    !.prev_text = cur_text,
                    !.set_text = IF ~chk.raised /\ write THEN 3 ELSE 0,
                    !.fmt = TRUE, !.fmt_now = t, !.fmt_past = past[1].v,
                    !.delta = delta_1, !.str0 = str_1,
                    !.checked = TRUE, !.chk_hour = HourOf(t),
                    !.chk_num = ElapsedMinutes(hm_1), !.chk_den = 1,
                    !.prev_status = status, !.applied = chk.applied,
                    !.hw_writes = chk.hw_writes, !.n_checks = 1,
                    !.hm = hm_1, !.str1 = str_2, !.two = two,
                    !.prev_region0 = disp[1] ] ]

(***************************************************************************)
(* The supervisor.                                                         *)
(*   pc = "boot"       about to run the body of the outer while True       *)
(*        "probe"      about to call mqtt_client.is_connected()            *)
(*        "loop"       inside mqtt_client.loop(10)                         *)
(*        "reconnect"  about to call mqtt_client.reconnect()               *)
(*        "sleep"      inside time.sleep(refresh_int_mins_val * 60)        *)
(*        "reset"      in the deep sleep of the outer handler (10 s)       *)
(*        "deep_sleep" in a deep sleep the program asked for               *)
(*        "exited"     the program has ended with an uncaught exception    *)
(***************************************************************************)
PollingPcs == {"probe", "loop", "reconnect", "sleep"}

\* The clock values reachable by waiting at least `ticks`; the clock stops at
\* MaxClock.
Advance(ticks) ==
    LET later == { t \in ClockTimes : t >= now + ticks }
    IN  IF later = {} THEN {MaxClock} ELSE later

\* The program's memory is gone (deep sleep, or main() has returned).
Forget ==
    /\ past_time_objs' = <<None, None>>
    /\ current_displayed_text' = NO_STR
    /\ leds_status' = OFF
    /\ mqtt' = NoMqtt
    /\ time_outside' = None
    /\ time_now' = None
    /\ msgs_in_loop' = 0
    /\ last_formatted' = NO_STR
    /\ probe_retries' = 0

\* exit_and_deep_sleep(secs): the device halts until the alarm and then runs
\* the program from its first line.
exit_and_deep_sleep(next_pc, ticks) ==
    /\ pc' = next_pc
    /\ alarm' = now' + ticks
    /\ periph' = "none"
    /\ neopixels' = NeopixelsDefault
    /\ Forget

\* A constructor that starts with no reference timestamp at all.
InitialSlotsMutEmpty(t) == <<None, None>>

\* `self._past_time_objs = [time_now, None]`
InitialSlots(t) == <<Some(t), None>>

\* An on_connect callback that subscribes to nothing.
ConnectedMutSubscribesNothing == {}

\* connected(): the topics the on_connect callback subscribes to, which the
\* client calls at the end of every successful connect().
connected_subscribes ==
    IF variant = "class" THEN {MQTT_TOPIC_OUT}
    ELSE {MQTT_TOPIC_OUT, MQTT_TOPIC_NOW}

\* The subscriptions after a successful reconnect(resub_topics): the new
\* connection starts a clean session, the client subscribes again to what
\* it was subscribed to when asked to, and connect() calls on_connect.
reconnect_subscriptions(resub_topics, subscribed) ==
    (IF resub_topics THEN subscribed ELSE {}) \cup connected_subscribes

StartStepsClass ==
    {"MagTag", "network.connect", "get_local_time", "mqtt.connect", "ping"}
StartStepsTwoTopic == {"MagTag", "network.connect", "mqtt.connect", "ping"}

\* src/src/code.py: one pass from the top of the outer loop to the polling
\* loop.  fail_at names the call that raises, "none" when all succeed.
ClassStart(t, fail_at) ==
    /\ variant = "class"
    /\ pc = "boot"
    /\ now' = t
    /\ obs' = [NoObs EXCEPT !.op = "start", !.fail_at = fail_at,
                 !.outcome = IF fail_at = "none" THEN "ok" ELSE "raise"]
    /\ display' = <<NO_TEXT, NO_TEXT, NO_TEXT>>
    /\ IF fail_at \in {"MagTag", "network.connect", "get_local_time"}
       THEN \* MagTagStopwatch() is called outside the try: nothing catches
            /\ pc' = "exited"
            /\ periph' = IF fail_at = "MagTag" THEN "none" ELSE "ok"
            /\ neopixels' = NeopixelsDefault
            /\ Forget
            /\ UNCHANGED alarm
       ELSE IF fail_at \in {"mqtt.connect", "ping"}
       THEN \* except Exception as main_ex: mtStopwatch.reset_system()
            exit_and_deep_sleep("reset", RESET_SLEEP_SECS * TicksPerSec)
       ELSE /\ pc' = "probe"
            /\ periph' = "ok"
            /\ neopixels' = NeopixelsDefault
            /\ past_time_objs' = InitialSlots(t)
            /\ current_displayed_text' = "0:00"
            /\ leds_status' = OFF
            /\ mqtt' = [connected |-> TRUE,
                        subscribed |-> connected_subscribes]
            /\ time_outside' = None
            /\ time_now' = None
            /\ msgs_in_loop' = 0
            /\ last_formatted' = NO_STR
            /\ probe_retries' = 0
            /\ UNCHANGED alarm
    /\ UNCHANGED config

\* src/code.py: one pass from the top of the outer loop to the polling loop.
TwoTopicStart(t, fail_at) ==
    /\ variant = "twotopic"
    /\ pc = "boot"
    /\ now' = t
    /\ obs' = [NoObs EXCEPT !.op = "start", !.fail_at = fail_at,
                 !.outcome = IF fail_at = "none" THEN "ok" ELSE "raise"]
    /\ display' = <<NO_TEXT>>
    /\ IF fail_at = "MagTag"
       THEN \* outer_magtag is still False: the handler only continues
            /\ pc' = "boot"
            /\ periph' = "none"
            /\ neopixels' = NeopixelsDefault
            /\ Forget
            /\ UNCHANGED alarm
       ELSE IF fail_at # "none"
       THEN \* outer_magtag.exit_and_deep_sleep(10)
            exit_and_deep_sleep("reset", RESET_SLEEP_SECS * TicksPerSec)
       ELSE /\ pc' = "probe"
            /\ periph' = "ok"
            /\ neopixels' = NeopixelsDefault
            /\ past_time_objs' = <<None, None>>
            /\ current_displayed_text' = NO_STR
            /\ leds_status' = OFF
            /\ mqtt' = [connected |-> TRUE,
                        subscribed |-> connected_subscribes]
            /\ time_outside' = None
            /\ time_now' = None
            /\ msgs_in_loop' = 0
            /\ last_formatted' = NO_STR
            /\ probe_retries' = 0
            /\ UNCHANGED alarm
    /\ UNCHANGED config

\* The device wakes from a deep sleep when its alarm is due.
Wake(t) ==
    /\ pc \in {"reset", "deep_sleep"}
    /\ t >= alarm \/ t = MaxClock
    /\ now' = t
    /\ pc' = "boot"
    /\ alarm' = 0
    /\ obs' = [NoObs EXCEPT !.op = "wake"]
    /\ UNCHANGED << config, periph, past_time_objs,
                    current_displayed_text, display, leds_status, neopixels,
                    mqtt, time_outside, time_now, msgs_in_loop,
                    last_formatted, probe_retries >>

\* A probe whose failure sends the supervisor on to reconnect.
ProbeMutReconnects(ok) ==
    /\ pc = "probe"
    /\ pc' = IF ok THEN "loop" ELSE "reconnect"
    /\ mqtt' = [mqtt EXCEPT !.connected = ok]
    /\ msgs_in_loop' = 0
    /\ probe_retries' = IF ok THEN 0 ELSE 1 - probe_retries
    /\ obs' = [NoObs EXCEPT !.op = "is_connected",
                 !.outcome = IF ok THEN "ok" ELSE "raise"]
    /\ UNCHANGED << config, now, alarm, periph, past_time_objs,
                    current_displayed_text, display, leds_status, neopixels,
                    time_outside, time_now, last_formatted >>

\* mqtt_client.is_connected(): returns, or raises MMQTTException and the
\* iteration is restarted by `continue`.
Probe(ok) ==
    /\ pc = "probe"
    /\ pc' = IF ok THEN "loop" ELSE "probe"
    /\ mqtt' = [mqtt EXCEPT !.connected = ok]
    /\ msgs_in_loop' = 0
    /\ probe_retries' = IF ok THEN 0 ELSE 1 - probe_retries
    /\ obs' = [NoObs EXCEPT !.op = "is_connected",
                 !.outcome = IF ok THEN "ok" ELSE "raise"]
    /\ UNCHANGED << config, now, alarm, periph, past_time_objs,
                    current_displayed_text, display, leds_status, neopixels,
                    time_outside, time_now, last_formatted >>

\* An exception leaves the on_message callback: mqtt_client.loop() raises
\* it and the supervisor goes on to reconnect.
CallbackRaises(fail_at, o) ==
    /\ pc' = "reconnect"
    /\ msgs_in_loop' = 0
    /\ obs' = [o EXCEPT !.op = "message", !.outcome = "raise",
                        !.fail_at = fail_at]

CallbackReturns(o) ==
    /\ pc' = "loop"
    /\ msgs_in_loop' = msgs_in_loop + 1
    /\ obs' = [o EXCEPT !.op = "message"]

\* A dispatch that takes every topic but the "now" topic for the reference
\* topic.
IsReferenceTopicMutAny(topic) == topic # MQTT_TOPIC_NOW

\* `if topic == MQTT_TOPIC_OUT:`
IsReferenceTopic(topic) == topic = MQTT_TOPIC_OUT

\* What the callback was handed: the topic, and the timestamp it parsed from
\* the payload when the topic is one it parses and the payload is one.
MsgObs(o, topic, payload) ==
    [o EXCEPT !.topic = topic,
              !.ts = IF /\ payload.ok
                        /\ \/ IsReferenceTopic(topic)
                           \/ variant = "twotopic" /\ topic = MQTT_TOPIC_NOW
                     THEN Some(FromIsoFormat(payload)) ELSE None]

\* src/src/code.py message(): loop() hands one inbound message to the
\* callback at clock value t.
ClassMessage(topic, payload, t, hw) ==
    /\ variant = "class"
    /\ pc = "loop"
    /\ msgs_in_loop < MaxMsgsPerLoop
    /\ now' = t
    /\ IF IsReferenceTopic(topic) /\ fromisoformat_raises(payload)
       THEN \* fromisoformat raises ValueError
            /\ CallbackRaises("fromisoformat", MsgObs(NoObs, topic, payload))
            /\ UNCHANGED << past_time_objs, current_displayed_text, display,
                            leds_status, neopixels, last_formatted >>
       ELSE IF IsReferenceTopic(topic)
       THEN \* mtStopwatch.set_past_time(time_outside)
            LET past == set_past_time(past_time_objs, FromIsoFormat(payload), 0)
                r == refresh_display(t, past, current_displayed_text, display,
                                     leds_status, neopixels, hw)
                o == MsgObs([r.obs EXCEPT !.prev_formatted = last_formatted],
                            topic, payload)
            IN  /\ past_time_objs' = past
                /\ current_displayed_text' = r.text
                /\ display' = r.disp
                /\ leds_status' = r.status
                /\ neopixels' = r.np
                /\ last_formatted' =
                       IF r.raised THEN last_formatted ELSE r.obs.formatted
                /\ IF r.raised
                   THEN CallbackRaises("neopixels", o)
                   ELSE CallbackReturns(o)
       ELSE \* unexpected topic: a warning is logged
            /\ CallbackReturns(MsgObs(NoObs, topic, payload))
            /\ UNCHANGED << past_time_objs, current_displayed_text, display,
                            leds_status, neopixels, last_formatted >>
    /\ UNCHANGED << config, alarm, periph, mqtt, time_outside, time_now,
                    probe_retries >>

\* src/code.py message(): the part after the topic dispatch, with the closure
\* variables as the dispatch left them.
TwoTopicShow(t_out, t_now, hw, o0) ==
    IF t_out.some /\ t_now.some
    THEN LET delta_time == t_now.v - t_out.v
             total_seconds == TotalSeconds(delta_time)
             delta_str == FormatHM(timedelta_to_hours_minutes(total_seconds))
             chk == LEDS_check(leds_status, neopixels, HourOf(t_now.v),
                               [num |-> total_seconds, den |-> 60], hw)
             hm == timedelta_to_hours_minutes(total_seconds)
             o == [ o0 EXCEPT
                    !.set_text = 1, !.n_checks = 1, !.hm = hm,
                    !.fmt = TRUE, !.fmt_now = t_now.v, !.fmt_past = t_out.v,
                    !.delta = delta_time, !.str0 = delta_str,
                    !.checked = TRUE, !.chk_hour = HourOf(t_now.v),
                    !.chk_num = total_seconds, !.chk_den = 60,
                    !.prev_status = leds_status, !.applied = chk.applied,
                    !.hw_writes = chk.hw_writes ]
         IN  /\ display' = <<delta_str>>
             /\ leds_status' = chk.status
             /\ neopixels' = chk.np
             /\ IF chk.raised
                THEN CallbackRaises("neopixels", o)
                ELSE CallbackReturns(o)
    ELSE /\ CallbackReturns(o0)
         /\ UNCHANGED << display, leds_status, neopixels >>

\* Ticks from the "now" message to sleep_daily_before_hour o'clock of its day.
UntilOn(t_now) ==
    Ticks(sleep_daily_before_hour_val, 0, 0, 0) - t_now

TwoTopicMessage(topic, payload, t, hw) ==
    /\ variant = "twotopic"
    /\ pc = "loop"
    /\ msgs_in_loop < MaxMsgsPerLoop
    /\ now' = t
    /\ IF /\ IsReferenceTopic(topic) \/ topic = MQTT_TOPIC_NOW
          /\ fromisoformat_raises(payload)
       THEN \* fromisoformat raises ValueError
            /\ CallbackRaises("fromisoformat", MsgObs(NoObs, topic, payload))
            /\ UNCHANGED << alarm, periph, display, leds_status, neopixels,
                            time_outside, time_now, past_time_objs,
                            current_displayed_text, mqtt, last_formatted,
                            probe_retries >>
       ELSE IF IsReferenceTopic(topic)
       THEN /\ time_outside' = Some(FromIsoFormat(payload))
            /\ time_now' = None
            /\ TwoTopicShow(time_outside', time_now', hw,
                            MsgObs(NoObs, topic, payload))
            /\ UNCHANGED << alarm, periph, past_time_objs,
                            current_displayed_text, mqtt, last_formatted,
                            probe_retries >>
       ELSE IF /\ topic = MQTT_TOPIC_NOW
               /\ sleep_daily_before_hour_val < 24
               /\ UntilOn(FromIsoFormat(payload)) > 0
       THEN \* magtag.set_text("Zzz"); magtag.exit_and_deep_sleep(until_on)
            /\ display' = <<"Zzz">>
            /\ obs' = [MsgObs(NoObs, topic, payload) EXCEPT
                         !.op = "message", !.set_text = 1,
                         !.prev_status = leds_status]
            /\ exit_and_deep_sleep("deep_sleep",
                                   UntilOn(FromIsoFormat(payload)))
       ELSE IF topic = MQTT_TOPIC_NOW
       THEN /\ time_now' = Some(FromIsoFormat(payload))
            /\ TwoTopicShow(time_outside, time_now', hw,
                            MsgObs(NoObs, topic, payload))
            /\ UNCHANGED << alarm, periph, time_outside, past_time_objs,
                            current_displayed_text, mqtt, last_formatted,
                            probe_retries >>
       ELSE /\ TwoTopicShow(time_outside, time_now, hw,
                            MsgObs(NoObs, topic, payload))
            /\ UNCHANGED << alarm, periph, time_outside, time_now,
                            past_time_objs, current_displayed_text, mqtt,
                            last_formatted, probe_retries >>
    /\ UNCHANGED config

\* mqtt_client.loop(10) raises by itself (dropped connection, timeout).
LoopRaises(t) ==
    /\ pc = "loop"
    /\ now' = t
    /\ pc' = "reconnect"
    /\ msgs_in_loop' = 0
    /\ mqtt' = [mqtt EXCEPT !.connected = FALSE]
    /\ obs' = [NoObs EXCEPT !.op = "loop", !.outcome = "raise",
                 !.fail_at = "loop"]
    /\ UNCHANGED << config, alarm, periph, past_time_objs,
                    current_displayed_text, display, leds_status, neopixels,
                    time_outside, time_now, last_formatted, probe_retries >>

\* A supervisor that ends every successful iteration with a deep sleep.
LedsAreOffMutAlways(status) == TRUE

\* `if leds.status == LEDS.OFF:`
leds_are_off(status) == status = OFF

\* mqtt_client.loop(10) returns: the iteration succeeded.
LoopReturns(t) ==
    /\ pc = "loop"
    /\ now' = t
    /\ obs' = [NoObs EXCEPT !.op = "loop", !.prev_status = leds_status]
    /\ IF variant = "twotopic" /\ leds_are_off(leds_status)
       THEN \* magtag.exit_and_deep_sleep(refresh_int_mins_val * 60)
            /\ exit_and_deep_sleep("deep_sleep",
                                   refresh_int_mins_val * 60 * TicksPerSec)
            /\ UNCHANGED display
       ELSE /\ pc' = "sleep"
            /\ msgs_in_loop' = 0
            /\ UNCHANGED << alarm, periph, past_time_objs,
                            current_displayed_text, display, leds_status,
                            neopixels, mqtt, time_outside, time_now,
                            last_formatted, probe_retries >>
    /\ UNCHANGED config

\* time.sleep(refresh_int_mins_val * 60), then the next iteration.
Sleep(t) ==
    /\ pc = "sleep"
    /\ t \in Advance(refresh_int_mins_val * 60 * TicksPerSec)
    /\ now' = t
    /\ pc' = "probe"
    /\ obs' = [NoObs EXCEPT !.op = "sleep"]
    /\ UNCHANGED << config, alarm, periph, past_time_objs,
                    current_displayed_text, display, leds_status, neopixels,
                    mqtt, time_outside, time_now, msgs_in_loop,
                    last_formatted, probe_retries >>

\* A supervisor that sleeps the refresh interval after a successful
\* reconnect too.
ReconnectOkMutSleeps ==
    /\ pc = "reconnect"
    /\ pc' = "sleep"
    /\ mqtt' = [mqtt EXCEPT !.connected = TRUE]
    /\ obs' = [NoObs EXCEPT !.op = "reconnect"]
    /\ UNCHANGED << config, now, alarm, periph, past_time_objs,
                    current_displayed_text, display, leds_status, neopixels,
                    time_outside, time_now, msgs_in_loop, last_formatted,
                    probe_retries >>

\* mqtt_client.reconnect(resub_topics=False) after a failed loop().
ReconnectOk ==
    /\ pc = "reconnect"
    /\ pc' = "probe"
    /\ mqtt' = [connected |-> TRUE,
                subscribed |-> reconnect_subscriptions(FALSE, mqtt.subscribed)]
    /\ obs' = [NoObs EXCEPT !.op = "reconnect", !.resub_topics = FALSE]
    /\ UNCHANGED << config, now, alarm, periph, past_time_objs,
                    current_displayed_text, display, leds_status, neopixels,
                    time_outside, time_now, msgs_in_loop, last_formatted,
                    probe_retries >>

\* reconnect raises.  src/src/code.py: deinit_peripherals(), then `continue`.
ClassReconnectRaises ==
    /\ variant = "class"
    /\ pc = "reconnect"
    /\ periph' = "deinit"
    /\ pc' = "probe"
    /\ mqtt' = [mqtt EXCEPT !.connected = FALSE]
    /\ obs' = [NoObs EXCEPT !.op = "reconnect", !.outcome = "raise",
                 !.fail_at = "reconnect", !.resub_topics = FALSE]
    /\ UNCHANGED << config, now, alarm, past_time_objs,
                    current_displayed_text, display, leds_status, neopixels,
                    time_outside, time_now, msgs_in_loop, last_formatted,
                    probe_retries >>

\* reconnect raises.  src/code.py: magtag.peripherals.deinit(), then main()
\* returns to the outer loop, which starts over.
TwoTopicReconnectRaises ==
    /\ variant = "twotopic"
    /\ pc = "reconnect"
    /\ periph' = "deinit"
    /\ pc' = "boot"
    /\ obs' = [NoObs EXCEPT !.op = "reconnect", !.outcome = "raise",
                 !.fail_at = "reconnect", !.resub_topics = FALSE]
    /\ Forget
    /\ UNCHANGED << config, now, alarm, display, neopixels >>

Init ==
    /\ variant \in {"class", "twotopic"}
    /\ \E c \in Configs :
           /\ leds_on_mins_threshold_val = c[1]
           /\ sleep_daily_before_hour_val = c[2]
           /\ backlight_brightness_val = c[3]
    /\ pc = "boot"
    /\ now = MinClock
    /\ alarm = 0
    /\ periph = "none"
    /\ past_time_objs = <<None, None>>
    /\ current_displayed_text = NO_STR
    /\ display = <<NO_TEXT>>
    /\ leds_status = OFF
    /\ neopixels = NeopixelsDefault
    /\ mqtt = NoMqtt
    /\ time_outside = None
    /\ time_now = None
    /\ msgs_in_loop = 0
    /\ last_formatted = NO_STR
    /\ probe_retries = 0
    /\ obs = NoObs

Next ==
    \/ \E t \in Advance(0), f \in StartStepsClass \cup {"none"} :
           ClassStart(t, f)
    \/ \E t \in Advance(0), f \in StartStepsTwoTopic \cup {"none"} :
           TwoTopicStart(t, f)
    \/ \E t \in ClockTimes : Wake(t)
    \/ \E ok \in BOOLEAN : Probe(ok)
    \/ \E topic \in Topics, payload \in Payloads, t \in Advance(0),
          hw \in HwOutcomes : ClassMessage(topic, payload, t, hw)
    \/ \E topic \in Topics, payload \in Payloads, t \in Advance(0),
          hw \in HwOutcomes : TwoTopicMessage(topic, payload, t, hw)
    \/ \E t \in Advance(0) : LoopRaises(t)
    \/ \E t \in Advance(0) : LoopReturns(t)
    \/ \E t \in ClockTimes : Sleep(t)
    \/ ReconnectOk
    \/ ClassReconnectRaises
    \/ TwoTopicReconnectRaises

Spec == Init /\ [][Next]_vars

\* The program runs on one thread that never stops by itself: some step is
\* always taken.  Which outcome a library call has is left to the environment.
FairSpec == Spec /\ WF_vars(Next)

(***************************************************************************)
(* The MagTagStopwatch object by itself: a caller that holds a constructed *)
(* object and calls its public methods with any arguments, among them the  *)
(* time_idx and auto_refresh_display the program leaves at their defaults. *)
(* The peripherals stay initialised; pc = "api" throughout.                *)
(***************************************************************************)
\* Slot indices handed to set_past_time: -(MaxSlotIndex + 1) .. MaxSlotIndex.
MaxSlotIndex == 2

SlotIndices == (-(MaxSlotIndex + 1)) .. MaxSlotIndex

\* Timestamps handed to set_past_time.
EngineTimes == { Ticks(10, 28, 42, 0), Ticks(12, 34, 0, 0) }

\* The configurations the object is constructed with: the defaults of the
\* source and the values of default_configs.py.
EngineConfigs == { <<-1, 24, 0>>, <<150, 8, 1>> }

\* The state a call leaves behind when it ran refresh_display on slots
\* `past` at clock value t; an exception of check() reaches the caller.
ApiRender(past, t, hw, o0) ==
    LET r == refresh_display(t, past, current_displayed_text, display,
                             leds_status, neopixels, hw)
    IN  /\ past_time_objs' = past
        /\ current_displayed_text' = r.text
        /\ display' = r.disp
        /\ leds_status' = r.status
        /\ neopixels' = r.np
        /\ last_formatted' =
               IF r.raised THEN last_formatted ELSE r.obs.formatted
        /\ obs' = [r.obs EXCEPT !.op = o0.op, !.idx = o0.idx, !.ts = o0.ts,
                     !.prev_formatted = last_formatted,
                     !.outcome = IF r.raised THEN "raise" ELSE "ok",
                     !.fail_at = IF r.raised THEN "neopixels" ELSE "none"]

\* set_past_time(past_time, time_idx, auto_refresh_display) at clock value t.
ApiSetPastTime(past_time, time_idx, auto_refresh_display, t, hw) ==
    LET o0 == [NoObs EXCEPT !.op = "set_past_time", !.idx = time_idx,
                            !.ts = Some(past_time)]
    IN  /\ pc = "api"
        /\ now' = t
        /\ IF ~ListIndexOk(past_time_objs, time_idx)
           THEN \* the list assignment raises IndexError
                /\ obs' = [o0 EXCEPT !.outcome = "raise",
                                     !.fail_at = "IndexError"]
                /\ UNCHANGED << past_time_objs, current_displayed_text,
                                display, leds_status, neopixels,
                                last_formatted >>
           ELSE IF auto_refresh_display
           THEN ApiRender(set_past_time(past_time_objs, past_time, time_idx),
                          t, hw, o0)
           ELSE /\ past_time_objs' =
                       set_past_time(past_time_objs, past_time, time_idx)
                /\ obs' = o0
                /\ UNCHANGED << current_displayed_text, display, leds_status,
                                neopixels, last_formatted >>
        /\ UNCHANGED << config, pc, alarm, periph, mqtt, time_outside,
                        time_now, msgs_in_loop, probe_retries >>

\* refresh_display() at clock value t.
ApiRefreshDisplay(t, hw) ==
    /\ pc = "api"
    /\ now' = t
    /\ ApiRender(past_time_objs, t, hw, [NoObs EXCEPT !.op = "refresh_display"])
    /\ UNCHANGED << config, pc, alarm, periph, mqtt, time_outside, time_now,
                    msgs_in_loop, probe_retries >>

\* The object as MagTagStopwatch() returns it.
EngineInit ==
    /\ variant = "class"
    /\ \E c \in EngineConfigs :
           /\ leds_on_mins_threshold_val = c[1]
           /\ sleep_daily_before_hour_val = c[2]
           /\ backlight_brightness_val = c[3]
    /\ pc = "api"
    /\ now = MinClock
    /\ alarm = 0
    /\ periph = "ok"
    /\ past_time_objs = InitialSlots(MinClock)
    /\ current_displayed_text = "0:00"
    /\ display = <<NO_TEXT, NO_TEXT, NO_TEXT>>
    /\ leds_status = OFF
    /\ neopixels = NeopixelsDefault
    /\ mqtt = NoMqtt
    /\ time_outside = None
    /\ time_now = None
    /\ msgs_in_loop = 0
    /\ last_formatted = NO_STR
    /\ probe_retries = 0
    /\ obs = [NoObs EXCEPT !.op = "start"]

\* The clock is sampled, and the hardware written, only by a call that gets
\* as far as refresh_display.
EngineNext ==
    \/ \E past_time \in EngineTimes, time_idx \in SlotIndices,
          auto_refresh_display \in BOOLEAN :
         LET renders == /\ auto_refresh_display
                        /\ ListIndexOk(past_time_objs, time_idx)
         IN  \E t \in (IF renders THEN Advance(0) ELSE {now}),
                hw \in (IF renders THEN HwOutcomes ELSE {"ok"}) :
               ApiSetPastTime(past_time, time_idx, auto_refresh_display, t, hw)
    \/ \E t \in Advance(0), hw \in HwOutcomes : ApiRefreshDisplay(t, hw)

EngineSpec == EngineInit /\ [][EngineNext]_vars

(***************************************************************************)
(* Properties.                                                             *)
(***************************************************************************)
ReconnectFailed == obs.op = "reconnect" /\ obs.outcome = "raise"

\* C1: once a reconnect attempt has failed (the peripherals are released,
\* which only a failed reconnect does), the supervisor is never again in the
\* polling loop of that session: no further probe, loop, reconnect or sleep.
C1_NoPollingAfterFailedReconnect ==
    periph = "deinit" => pc \notin PollingPcs

\* C2: whenever a reconnect attempt fails, the device eventually is in the
\* hardware reset (the 10 second deep sleep of the outer handler), from
\* which Start runs again.
C2_FailedReconnectLeadsToReset ==
    ReconnectFailed ~> (pc = "reset")

\* C3: no behaviour repeats polling iterations forever without an idle
\* sleep, a backoff delay or a restart recurring between them.
C3_NoFastRetryLoop ==
    ([]<>(obs.op = "is_connected"))
        => ([]<>(obs.op \in {"sleep", "wake", "start"}))

\* C4: the program never terminates: in no reachable state has it exited.
C4_NeverExits == pc # "exited"

\* C5: Start is never about to run right after a failure: between a failure
\* that ends a session and the next Start lies the hardware reset, whose
\* wake-up is then the last step.
C5_ResetBeforeRestart ==
    pc = "boot" => obs.outcome # "raise"

\* C6: a refresh_display that joined its formatted string wrote the display
\* exactly when that string differs from the text recorded as displayed, it
\* recorded the string, and it wrote nothing when the previous
\* refresh_display of the session had joined the same string.
C6_IdempotentRender ==
    obs.rendered =>
        /\ (obs.set_text > 0) <=> (obs.formatted # obs.prev_text)
        /\ current_displayed_text = obs.formatted
        /\ obs.formatted = obs.prev_formatted => obs.set_text = 0

C6_Witness ==
    /\ obs.rendered
    /\ obs.formatted = obs.prev_formatted
    /\ obs.set_text = 0
    /\ display[1] = obs.formatted

\* C7: after every check(time_now, total_minutes) the status is ALERT if
\* total_minutes >= threshold >= 0 and the hour is at least the earliest
\* hour, else BACKLIGHT if the brightness is positive, else OFF; the status
\* is always one of the three.
C7_IndicatorDecision ==
    /\ leds_status \in {OFF, ALERT, BACKLIGHT}
    /\ obs.checked =>
        leds_status =
            IF /\ obs.chk_num >= leds_on_mins_threshold_val * obs.chk_den
               /\ leds_on_mins_threshold_val >= 0
               /\ obs.chk_hour >= sleep_daily_before_hour_val
            THEN ALERT
            ELSE IF backlight_brightness_val > 0 THEN BACKLIGHT ELSE OFF

C7_Witness ==
    /\ obs.checked
    /\ backlight_brightness_val > 0
    /\ leds_status = ALERT

\* C8: a check() applies a transition to the hardware exactly when the
\* status it decides differs from the status before, then once and for the
\* decided status; a check() that keeps the status writes nothing.
C8_TransitionSuppression ==
    obs.checked =>
        /\ (obs.hw_writes > 0) <=> (obs.prev_status # leds_status)
        /\ obs.applied = IF obs.prev_status # leds_status
                         THEN <<leds_status>> ELSE << >>

C8_Witness ==
    /\ obs.checked
    /\ obs.prev_status = OFF
    /\ leds_status = OFF
    /\ neopixels.disable
    /\ obs.hw_writes = 0

\* C9: with a negative threshold, or with the earliest hour 24, the status
\* is never ALERT; with brightness 0.0 it is never BACKLIGHT.
C9_DisablePaths ==
    /\ (leds_on_mins_threshold_val < 0 \/ sleep_daily_before_hour_val = 24)
           => leds_status # ALERT
    /\ backlight_brightness_val = 0 => leds_status # BACKLIGHT

C9_Witness ==
    /\ obs.checked
    /\ leds_on_mins_threshold_val = -1
    /\ obs.chk_num >= 60 * obs.chk_den
    /\ obs.chk_hour >= sleep_daily_before_hour_val
    /\ leds_status = BACKLIGHT

\* C10: a non-negative duration is truncated to whole seconds s and shown as
\* floor(s / 3600), a colon, and floor((s mod 3600) / 60) in two digits;
\* from 10:28:42 to 12:29:00 that is "2:00".
C10_DurationFormat ==
    obs.fmt =>
        /\ obs.delta = obs.fmt_now - obs.fmt_past
        /\ obs.delta >= 0 =>
            LET s == obs.delta \div TicksPerSec
                h == s \div 3600
                m == (s % 3600) \div 60
            IN  /\ m \in 0..59
                /\ obs.str0 = ToString(h) \o ":"
                       \o (IF m < 10 THEN "0" ELSE "") \o ToString(m)
        /\ (obs.fmt_past = Ticks(10, 28, 42, 0)
               /\ obs.fmt_now = Ticks(12, 29, 0, 0)) => obs.str0 = "2:00"

C10_Witness ==
    /\ obs.fmt
    /\ obs.fmt_past = Ticks(10, 28, 42, 0)
    /\ obs.fmt_now = Ticks(12, 29, 0, 0)
    /\ obs.str0 = "2:00"
    /\ display[Len(display) - (IF variant = "class" THEN 2 ELSE 0)] = "2:00"

\* C11: a duration of minus one whole second or less is not raised to zero:
\* with s its second count truncated toward zero, the hours component is
\* negative, the minutes component is in 0..59, and
\* hours*3600 + minutes*60 <= s < hours*3600 + minutes*60 + 60; the string
\* shown is made of these two components; a reference five minutes ahead of
\* the clock gives hours -1 or 0.
C11_NegativeDuration ==
    (obs.fmt /\ obs.delta <= -TicksPerSec) =>
        LET s == -((-obs.delta) \div TicksPerSec)
            h == obs.hm[1]
            m == obs.hm[2]
        IN  /\ h < 0
            /\ m \in 0..59
            /\ h * 3600 + m * 60 <= s
            /\ s < h * 3600 + m * 60 + 60
            /\ obs.str0 = ToString(h) \o ":"
                   \o (IF m < 10 THEN "0" ELSE "") \o ToString(m)
            /\ obs.delta = -(300 * TicksPerSec) => h \in {-1, 0}

C11_Witness ==
    /\ obs.fmt
    /\ obs.fmt_past = Ticks(12, 34, 0, 0)
    /\ obs.fmt_now = Ticks(12, 29, 0, 0)
    /\ obs.hm = <<-1, 55>>
    /\ obs.str0 = "-1:55"

\* C12: a set_past_time with a slot index outside {0, 1}, negative or 2 and
\* above, fails with an index error and neither stores nor renders anything;
\* with index 0 or 1 it stores the timestamp in exactly that slot.
C12_SlotValidation ==
    obs.op = "set_past_time" =>
        IF obs.idx \in {0, 1}
        THEN past_time_objs[obs.idx + 1] = obs.ts
        ELSE /\ obs.outcome = "raise"
             /\ obs.fail_at = "IndexError"
             /\ ~obs.fmt

\* C13: a refresh_display that ran to its end used the dual layout exactly
\* when slot 1 is populated.  In the single layout a write puts the string
\* of slot 0 in region 0 and clears regions 1 and 2.  In the dual layout a
\* write clears region 0 and puts the string of slot 0 in region 1 and that
\* of slot 1 in region 2; and when the display is not in the dual layout
\* yet (region 0 is not cleared), the call does write: the comparison with
\* the text displayed never suppresses the switch.
C13_DualSlotLayout ==
    obs.rendered =>
        /\ obs.two = past_time_objs[2].some
        /\ (~obs.two /\ obs.set_text > 0) => display = <<obs.str0, "", "">>
        /\ obs.two =>
            /\ obs.str1 = FormatHM(timedelta_to_hours_minutes(
                   TotalSeconds(obs.fmt_now - past_time_objs[2].v)))
            /\ obs.set_text > 0 => display = <<"", obs.str0, obs.str1>>
            /\ obs.prev_region0 # "" => obs.set_text > 0

C13_Witness ==
    /\ obs.rendered
    /\ obs.two
    /\ obs.prev_region0 \notin {"", NO_TEXT}
    /\ obs.str0 # obs.str1
    /\ display = <<"", obs.str0, obs.str1>>

\* C14: the step that ends a successful polling iteration has invoked
\* refresh_display with the current clock: the duration was formatted and
\* check() was called for the clock value of that step.
C14_PeriodicRerender ==
    (obs.op = "loop" /\ obs.outcome = "ok") =>
        /\ obs.fmt
        /\ obs.fmt_now = now
        /\ obs.n_checks = 1

\* C15: a message on a topic that is none of the topics the variant handles
\* leaves the slots (the closure variables of the two-topic variant), the
\* text recorded as displayed, the display regions, the indicator status
\* and the neopixels unchanged; the callback returns without an exception,
\* the client and the peripherals stay as they were and loop() goes on.
C15_UnexpectedTopicIgnored ==
    [][ ( /\ pc = "loop"
          /\ obs'.op = "message"
          /\ obs'.topic # MQTT_TOPIC_OUT
          /\ variant = "twotopic" => obs'.topic # MQTT_TOPIC_NOW )
        => /\ UNCHANGED << past_time_objs, time_outside, time_now,
                           current_displayed_text, display, leds_status,
                           neopixels, mqtt, periph >>
           /\ obs'.outcome = "ok"
           /\ pc' = "loop" ]_vars

C15_Witness ==
    /\ obs.op = "message"
    /\ obs.topic = "other"
    /\ obs.outcome = "ok"
    /\ variant = "twotopic"
    /\ time_outside.some
    /\ time_now.some
    /\ obs.set_text = 1

\* C16: every successful Start leaves slot 0 holding the clock sample of
\* that Start, slot 1 absent, "0:00" recorded as displayed and the indicator
\* status OFF (the two-topic variant, which has no slots, leaves both its
\* timestamps absent), whatever the state before; and no step of the
\* polling loop other than the delivery of a message changes any of these.
C16_FreshSession ==
    [][ /\ (pc = "boot" /\ pc' = "probe") =>
            /\ leds_status' = OFF
            /\ variant = "class" =>
                   /\ past_time_objs' = <<Some(now'), None>>
                   /\ current_displayed_text' = "0:00"
            /\ variant = "twotopic" =>
                   /\ time_outside' = None
                   /\ time_now' = None
        /\ (pc \in PollingPcs /\ pc' \in PollingPcs /\ obs'.op # "message")
            => UNCHANGED << past_time_objs, current_displayed_text,
                            leds_status, time_outside, time_now >>
      ]_vars

C16_Witness ==
    /\ variant = "class"
    /\ obs.op = "sleep"
    /\ now = MaxClock
    /\ \E t \in ClockTimes : t < now /\ past_time_objs = <<Some(t), None>>
    /\ current_displayed_text = "0:00"
    /\ leds_status = OFF

\* C17: the supervisor enters the sleep of the refresh interval (time.sleep,
\* or in the two-topic variant the deep sleep of the same length) exactly in
\* the step in which loop() returns normally, which only an iteration whose
\* probe succeeded reaches; a failed probe and a successful reconnect both
\* lead straight to the next probe, with the clock where it was.
C17_SleepOnlyAfterSuccess ==
    [][ /\ ( \/ pc' = "sleep" /\ pc # "sleep"
             \/ pc' = "deep_sleep" /\ pc # "deep_sleep"
                  /\ alarm' = now' + refresh_int_mins_val * 60 * TicksPerSec
                  /\ obs'.op # "message" )
            <=> (pc = "loop" /\ obs'.op = "loop" /\ obs'.outcome = "ok")
        /\ (pc = "loop" /\ obs'.op = "loop") => obs.op \in {"is_connected", "message"}
        /\ (pc = "probe" /\ obs'.op = "is_connected" /\ obs'.outcome = "raise")
            => (pc' = "probe" /\ now' = now)
        /\ (pc = "reconnect" /\ obs'.op = "reconnect" /\ obs'.outcome = "ok")
            => (pc' = "probe" /\ now' = now)
        /\ (pc = "sleep" /\ pc' # "sleep")
            => /\ obs.op = "loop" /\ obs.outcome = "ok"
               /\ obs'.op = "sleep"
               /\ pc' = "probe"
      ]_vars

C17_Witness ==
    /\ obs.op = "is_connected"
    /\ obs.outcome = "raise"
    /\ pc = "probe"
    /\ probe_retries = 1
    /\ mqtt.subscribed # {}

\* C18: a probe that raises changes neither the slots, the text recorded as
\* displayed, the display, the indicator status, the neopixels nor the
\* state of the peripherals, and the supervisor is at the probe again:
\* neither loop() nor reconnect() is called before the next probe.
C18_ProbeFailureFrame ==
    [][ (pc = "probe" /\ obs'.op = "is_connected" /\ obs'.outcome = "raise")
        => /\ UNCHANGED << past_time_objs, current_displayed_text, display,
                           leds_status, neopixels, periph, time_outside,
                           time_now, now, alarm >>
           /\ mqtt'.subscribed = mqtt.subscribed
           /\ pc' = "probe"
      ]_vars

C18_Witness ==
    /\ obs.op = "is_connected"
    /\ obs.outcome = "raise"
    /\ pc = "probe"
    /\ display[1] \notin {NO_TEXT, ""}
    /\ leds_status # OFF

\* C19: every message is handled in one step of its own, in the order of
\* delivery.  After the step of a reference-topic message with a timestamp,
\* slot 0 (time_outside in the two-topic variant) holds that timestamp; in
\* the class variant the same step has formatted the duration since that
\* timestamp, called check() once and, unless check() raised, ended the
\* render with the joined string recorded as displayed.  No other step of
\* the polling loop changes slot 0, so slot 0 holds the timestamp of the
\* last reference-topic message delivered.
C19_LastDeliveredWins ==
    /\ [](( /\ obs.op = "message"
            /\ obs.topic = MQTT_TOPIC_OUT
            /\ obs.ts.some ) =>
           IF variant = "class"
           THEN /\ past_time_objs[1] = obs.ts
                /\ obs.fmt
                /\ obs.fmt_past = obs.ts.v
                /\ obs.n_checks = 1
                /\ obs.outcome = "ok" =>
                       /\ obs.rendered
                       /\ current_displayed_text = obs.formatted
           ELSE time_outside = obs.ts)
    /\ [][ ( /\ pc \in PollingPcs
             /\ pc' \in PollingPcs
             /\ ~(obs'.op = "message" /\ obs'.topic = MQTT_TOPIC_OUT) )
           => UNCHANGED << past_time_objs, time_outside >> ]_vars

C19_Witness ==
    /\ variant = "class"
    /\ obs.op = "message"
    /\ obs.topic = MQTT_TOPIC_OUT
    /\ msgs_in_loop = MaxMsgsPerLoop
    /\ past_time_objs[1] = obs.ts
    /\ obs.ts.v = Ticks(10, 28, 42, 1)
    /\ obs.prev_text = "-1:55"
    /\ obs.rendered
    /\ obs.set_text > 0

\* C20: every refresh_display calls check() exactly once, with the hour of
\* the clock sample its formatting used and with hours*60 + minutes of the
\* duration since slot 0, whatever slot 1 holds and whether or not the
\* display was written; a call that does not render does not call check().
C20_CheckOncePerRender ==
    obs.op \in {"set_past_time", "refresh_display"} =>
        IF obs.fmt
        THEN LET d == obs.fmt_now - past_time_objs[1].v
                 s == IF d >= 0 THEN d \div TicksPerSec
                      ELSE -((-d) \div TicksPerSec)
             IN  /\ obs.n_checks = 1
                 /\ obs.checked
                 /\ obs.fmt_now = now
                 /\ obs.chk_hour = (now \div (3600 * TicksPerSec)) % 24
                 /\ obs.chk_den = 1
                 /\ obs.chk_num = (s \div 3600) * 60 + (s % 3600) \div 60
        ELSE obs.n_checks = 0 /\ ~obs.checked

C20_Witness ==
    /\ obs.op = "refresh_display"
    /\ obs.rendered
    /\ obs.set_text = 0
    /\ obs.two
    /\ obs.str1 # obs.str0
    /\ obs.n_checks = 1
    /\ obs.chk_num = 180
    /\ leds_status = ALERT

\* C21: every reconnect is requested with resub_topics = False; after every
\* successful Start and every successful reconnect the client is subscribed
\* to the reference topic; and whenever the supervisor is in the polling
\* loop with the client connected, the client is subscribed to that topic.
C21_SubscribedWhileConnected ==
    /\ obs.op = "reconnect" => ~obs.resub_topics
    /\ (obs.op \in {"start", "reconnect"} /\ obs.outcome = "ok"
            /\ pc \in PollingPcs)
           => (mqtt.connected /\ MQTT_TOPIC_OUT \in mqtt.subscribed)
    /\ (pc \in PollingPcs /\ mqtt.connected)
           => MQTT_TOPIC_OUT \in mqtt.subscribed

C21_Witness ==
    /\ obs.op = "reconnect"
    /\ obs.outcome = "ok"
    /\ ~obs.resub_topics
    /\ pc = "probe"
    /\ mqtt.connected
    /\ MQTT_TOPIC_OUT \in mqtt.subscribed

\* C22: in every state of a session of the class variant the text recorded
\* as displayed is what the display regions hold: region 0 in the single
\* layout, regions 1 and 2 joined by a space in the dual layout.
C22_RenderedTextConsistency ==
    (variant = "class" /\ pc \in PollingPcs) =>
        IF _should_show_2_times(past_time_objs)
        THEN /\ display[1] = ""
             /\ current_displayed_text = display[2] \o " " \o display[3]
        ELSE current_displayed_text = display[1]

\* C23: a reference-topic message whose payload is no timestamp leaves the
\* slots (the timestamps of the two-topic variant), the text recorded as
\* displayed, the display, the indicator status, the neopixels and the
\* peripherals unchanged; the ValueError leaves loop() and the supervisor
\* goes on to reconnect, not to a reset or a new Start; and the supervisor
\* leaves that position with its next step, one call of reconnect().
C23_UnparsablePayload ==
    [][ /\ ( /\ pc = "loop"
             /\ obs'.op = "message"
             /\ obs'.topic = MQTT_TOPIC_OUT
             /\ ~obs'.ts.some )
           => /\ UNCHANGED << past_time_objs, time_outside, time_now,
                              current_displayed_text, display, leds_status,
                              neopixels, periph >>
              /\ obs'.outcome = "raise"
              /\ obs'.fail_at = "fromisoformat"
              /\ pc' = "reconnect"
        /\ pc = "reconnect" => (pc' # "reconnect" /\ obs'.op = "reconnect")
      ]_vars

C23_Witness ==
    /\ obs.op = "message"
    /\ obs.topic = MQTT_TOPIC_OUT
    /\ ~obs.ts.some
    /\ obs.fail_at = "fromisoformat"
    /\ pc = "reconnect"
    /\ variant = "class"
    /\ past_time_objs[1].v = Ticks(10, 28, 42, 0)
    /\ display[1] = current_displayed_text
    /\ leds_status = ALERT

\* C24: in every state of a session of the class variant slot 0 is
\* populated and slot 1 is absent, and every step that wrote the display
\* wrote the single layout: the string of slot 0 in region 0, regions 1 and
\* 2 cleared.
C24_SlotOneNeverPopulated ==
    (variant = "class" /\ pc \in PollingPcs) =>
        /\ past_time_objs[1].some
        /\ ~past_time_objs[2].some
        /\ obs.set_text > 0 =>
               /\ ~obs.two
               /\ display = <<obs.str0, "", "">>

C24_Witness ==
    /\ variant = "class"
    /\ obs.op = "message"
    /\ msgs_in_loop = MaxMsgsPerLoop
    /\ obs.set_text > 0
    /\ past_time_objs = <<Some(Ticks(12, 34, 0, 0)), None>>
    /\ display = <<"-1:55", "", "">>

\* C25 as stated: in the two-topic variant a successful polling iteration
\* ends in the deep sleep exactly when the indicator status is OFF and in
\* time.sleep otherwise, and the device never enters a deep sleep while the
\* status is ALERT or BACKLIGHT.
C25_NeverHaltsWhileLit ==
    variant = "twotopic" =>
        /\ (obs.op = "loop" /\ obs.outcome = "ok") =>
               /\ (pc = "deep_sleep") <=> (obs.prev_status = OFF)
               /\ (pc = "sleep") <=> (obs.prev_status # OFF)
        /\ pc = "deep_sleep" => obs.prev_status = OFF

\* C25, amended: in the two-topic variant a successful polling iteration
\* ends in the deep sleep of the refresh interval exactly when the indicator
\* status is OFF and in time.sleep otherwise; the one other deep sleep the
\* program asks for is that of message() on a "now" timestamp earlier than
\* the earliest hour, which is entered whatever the status is.
C25_HaltAfterIterationIffOff ==
    variant = "twotopic" =>
        /\ (obs.op = "loop" /\ obs.outcome = "ok") =>
               /\ (pc = "deep_sleep") <=> (obs.prev_status = OFF)
               /\ (pc = "sleep") <=> (obs.prev_status # OFF)
        /\ pc = "deep_sleep" =>
               \/ /\ obs.op = "loop"
                  /\ obs.prev_status = OFF
                  /\ alarm = now + refresh_int_mins_val * 60 * TicksPerSec
               \/ /\ obs.op = "message"
                  /\ obs.topic = MQTT_TOPIC_NOW
                  /\ obs.ts.some
                  /\ HourOf(obs.ts.v) < sleep_daily_before_hour_val
                  /\ display = <<"Zzz">>

C25_Witness ==
    /\ variant = "twotopic"
    /\ pc = "deep_sleep"
    /\ obs.op = "message"
    /\ obs.prev_status = ALERT
    /\ display = <<"Zzz">>

=============================================================================
